---- MODULE Spec2Model ----
(***************************************************************************)
(* Model of scripts/generate_tiles.py: the GeoTIFF to web tiles generator. *)
(*                                                                         *)
(* Python's None is the empty tuple and a present value x is <<x>>.        *)
(* Coordinates are whole degrees; a centre is kept as twice its value      *)
(* (lat2 = south + north), so that the division by two stays exact.        *)
(* A pixel size p is given by the binary form of the ratio the code takes  *)
(* the logarithm of:  156543.03392804097 / |p| = (mant / 4) * 2^expo with  *)
(* mant in 4..7, and mant = 0 for p = 0.                                   *)
(***************************************************************************)
EXTENDS Integers, Sequences, FiniteSets, TLC

\* ---------------------------------------------------------------- bounds
MaxFiles == 3
MaxNegExp == 12
MaxExp == 32

\* ----------------------------------------------------------- option type
None == <<>>
Some(x) == <<x>>

Min2(a, b) == IF a <= b THEN a ELSE b
Max2(a, b) == IF a >= b THEN a ELSE b

\* ------------------------------------------------------------ input sets
Stems == {"siteA", "siteB", "siteC"}
TiffStems == {"siteA"}
AllFiles == [stem : Stems, ext : {"tif"}] \cup [stem : TiffStems, ext : {"tiff"}]

ToolStates == {"ok", "nonzero", "missing"}

Bounds(w, s, e, n) == [west |-> w, south |-> s, east |-> e, north |-> n]
BoundsSet == {Bounds(-1, 0, 1, 2), Bounds(2, 1, 3, 3), Bounds(-2, -1, 0, 1), Bounds(0, 0, 0, 0)}

PixelSize(sg, m, e) == [sign |-> sg, mant |-> m, expo |-> e]
ZeroPixelSize == PixelSize(1, 0, 0)
PixelSizes == {PixelSize(sg, m, e) : sg \in {1, -1}, m \in 4..7, e \in (0 - MaxNegExp)..MaxExp}
PipelineExps == {-6, -4, 12}
PipelinePixelSizes == {PixelSize(1, 4, e) : e \in PipelineExps} \cup {ZeroPixelSize}

ImageWidths == {256}

VARIABLES
    gdalinfo_tool,      \* environment: state of the gdalinfo executable
    gdal2tiles_tool,    \* environment: state of the gdal2tiles.py executable
    orthos_dir,         \* environment: the set of files in orthos/
    pc,                 \* position of main()
    geotiff_files,      \* main: the list built by the two globs
    idx,                \* main: position of the for loop in geotiff_files
    cur,                \* generate_tiles: bounds, min_zoom, max_zoom across the gdal2tiles call
    ortho_configs,      \* main: the dict, as a sequence of entries in insertion order
    gdalinfo_calls,     \* per file: number of 'gdalinfo -json' runs
    gdal2tiles_calls,   \* per file: number of gdal2tiles.py runs
    info_result,        \* per file: how get_geotiff_info ended
    update_calls,       \* number of calls of update_map_config
    overall,            \* update_map_config: min_west .. center_lng once computed
    map_js,             \* content of web/js/map.js
    js_writes,          \* number of times web/js/map.js was opened for writing
    exit_path,          \* how the process ended
    exit_code,          \* exit status of the process, -1 while it runs
    z_in,               \* calculate_zoom_levels: argument
    z_out               \* calculate_zoom_levels: returned pair

vars == <<gdalinfo_tool, gdal2tiles_tool, orthos_dir, pc, geotiff_files, idx, cur,
          ortho_configs, gdalinfo_calls, gdal2tiles_calls, info_result, update_calls,
          overall, map_js, js_writes, exit_path, exit_code, z_in, z_out>>

envVars == <<gdalinfo_tool, gdal2tiles_tool, orthos_dir>>
zoomVars == <<z_in, z_out>>

\* ------------------------------------------------ calculate_zoom_levels
Abs(pixel_size) == [pixel_size EXCEPT !.sign = 1]

\* int(math.log2(meters_per_pixel_zoom0 / abs(pixel_size))): int() truncates towards zero
IntOptimalZoom(pixel_size) ==
    LET p == Abs(pixel_size)
    IN IF p.expo >= 0 \/ p.mant = 4 THEN p.expo ELSE p.expo + 1

\* the fallback test placed one level too high
calculate_zoom_levels_late_fallback(pixel_size, image_width) ==
    LET optimal_zoom == IntOptimalZoom(pixel_size)
        calculated_min == Max2(1, optimal_zoom - 8)
        calculated_max == Min2(22, optimal_zoom + 4)
        min_zoom == Min2(calculated_min, calculated_max)
        max_zoom == Max2(calculated_min, calculated_max)
    IN IF min_zoom > 19 THEN <<10, 22>> ELSE <<min_zoom, max_zoom>>

calculate_zoom_levels(pixel_size, image_width) ==
    LET optimal_zoom == IntOptimalZoom(pixel_size)
        calculated_min == Max2(1, optimal_zoom - 8)
        calculated_max == Min2(22, optimal_zoom + 4)
        min_zoom == Min2(calculated_min, calculated_max)
        max_zoom == Max2(calculated_min, calculated_max)
    IN IF min_zoom > 18 THEN <<10, 22>> ELSE <<min_zoom, max_zoom>>

\* ------------------------------------------------------------------ main
Init ==
    /\ gdalinfo_tool \in ToolStates
    /\ gdal2tiles_tool \in ToolStates
    /\ orthos_dir \in {d \in SUBSET AllFiles : Cardinality(d) <= MaxFiles}
    /\ pc = "check_gdal"
    /\ geotiff_files = <<>>
    /\ idx = 0
    /\ cur = None
    /\ ortho_configs = <<>>
    /\ gdalinfo_calls = <<>>
    /\ gdal2tiles_calls = <<>>
    /\ info_result = <<>>
    /\ update_calls = 0
    /\ overall = None
    /\ map_js = None
    /\ js_writes = 0
    /\ exit_path = "running"
    /\ exit_code = -1
    /\ z_in = None
    /\ z_out = None

\* an exception nobody catches: traceback, exit status 1
Uncaught ==
    /\ pc' = "exited"
    /\ exit_path' = "uncaught"
    /\ exit_code' = 1

\* sys.exit(1) after the printed diagnostic
SysExit1 ==
    /\ pc' = "exited"
    /\ exit_path' = "config_error"
    /\ exit_code' = 1

\* the first probe that does not succeed decides: a missing executable raises
\* FileNotFoundError, a non-zero exit raises CalledProcessError
ProbeOutcome ==
    IF gdalinfo_tool # "ok" THEN gdalinfo_tool ELSE gdal2tiles_tool

CheckGdal ==
    /\ pc = "check_gdal"
    /\ CASE ProbeOutcome = "ok" -> pc' = "glob" /\ UNCHANGED <<exit_path, exit_code>>
         [] ProbeOutcome = "nonzero" -> SysExit1
         [] ProbeOutcome = "missing" -> Uncaught
    /\ UNCHANGED <<envVars, zoomVars, geotiff_files, idx, cur, ortho_configs, gdalinfo_calls,
                   gdal2tiles_calls, info_result, update_calls, overall, map_js, js_writes>>

\* glob() lists a directory in no particular order; the *.tif matches come first
Orderings(S) ==
    {s \in [1..Cardinality(S) -> S] : \A i, j \in 1..Cardinality(S) : i # j => s[i] # s[j]}

GlobLists(dir) ==
    {s \in Orderings(dir) :
        \A i, j \in 1..Len(s) : (s[i].ext = "tif" /\ s[j].ext = "tiff") => i < j}

FindGeotiffFiles ==
    /\ pc = "glob"
    /\ \E files \in GlobLists(orthos_dir) :
        /\ geotiff_files' = files
        /\ gdalinfo_calls' = [i \in 1..Len(files) |-> 0]
        /\ gdal2tiles_calls' = [i \in 1..Len(files) |-> 0]
        /\ info_result' = [i \in 1..Len(files) |-> "pending"]
        /\ IF files = <<>>
           THEN SysExit1 /\ UNCHANGED idx
           ELSE pc' = "generate_tiles" /\ idx' = 1 /\ UNCHANGED <<exit_path, exit_code>>
    /\ UNCHANGED <<envVars, zoomVars, cur, ortho_configs, update_calls, overall, map_js, js_writes>>

\* ------------------------------------------------------ get_geotiff_info
\* what 'gdalinfo -json <path>' can answer
GdalinfoResponses ==
    {[kind |-> k] : k \in {"nonzero", "badjson", "missingkey"}}
    \cup {[kind |-> "ok", bounds |-> b, size |-> <<w, w>>, pixel_size |-> p] :
            b \in BoundsSet, w \in ImageWidths, p \in PipelinePixelSizes}

NoInfo(exc) == [raised |-> exc, bounds |-> None, size |-> None, pixel_size |-> None]

get_geotiff_info(resp) ==
    CASE resp.kind = "nonzero" -> NoInfo("none")        \* CalledProcessError, caught
      [] resp.kind = "badjson" -> NoInfo("none")        \* JSONDecodeError, caught
      [] resp.kind = "missingkey" -> NoInfo("KeyError") \* no except clause for it
      [] resp.kind = "ok" -> [raised |-> "none", bounds |-> Some(resp.bounds),
                              size |-> Some(resp.size), pixel_size |-> Some(resp.pixel_size)]

\* -------------------------------------------------- main: ortho_configs
FileName(f) == <<f.stem, f.ext>>
Stem(f) == f.stem

DictSet(d, key, entry) ==
    IF \E i \in 1..Len(d) : d[i].name = key
    THEN [i \in 1..Len(d) |-> IF d[i].name = key THEN entry ELSE d[i]]
    ELSE Append(d, entry)

\* ortho_configs[folder_name] = {...} and the step of the for loop
StoreResult(bounds, min_zoom, max_zoom) ==
    /\ ortho_configs' = DictSet(ortho_configs, Stem(geotiff_files[idx]),
                                [name |-> Stem(geotiff_files[idx]), bounds |-> bounds,
                                 min_zoom |-> min_zoom, max_zoom |-> max_zoom,
                                 source_file |-> FileName(geotiff_files[idx])])
    /\ idx' = idx + 1
    /\ pc' = IF idx = Len(geotiff_files) THEN "update" ELSE "generate_tiles"

\* -------------------------------------------------------- generate_tiles
\* from its first line to the point where gdal2tiles.py is started
GenerateTilesInfo ==
    /\ pc = "generate_tiles"
    /\ \E resp \in GdalinfoResponses :
        LET info == get_geotiff_info(resp)
        IN /\ gdalinfo_calls' = [gdalinfo_calls EXCEPT ![idx] = @ + 1]
           /\ info_result' = [info_result EXCEPT ![idx] = resp.kind]
           /\ IF info.raised # "none"
              THEN Uncaught /\ UNCHANGED <<idx, cur, ortho_configs>>
              ELSE IF info.bounds = None
              THEN /\ StoreResult(None, None, None)
                   /\ UNCHANGED <<cur, exit_path, exit_code>>
              ELSE IF info.pixel_size[1] = ZeroPixelSize
              THEN Uncaught /\ UNCHANGED <<idx, cur, ortho_configs>>  \* ZeroDivisionError
              ELSE LET z == calculate_zoom_levels(info.pixel_size[1], info.size[1][1])
                   IN /\ cur' = Some([bounds |-> info.bounds[1], min_zoom |-> z[1], max_zoom |-> z[2]])
                      /\ pc' = "gdal2tiles"
                      /\ UNCHANGED <<idx, ortho_configs, exit_path, exit_code>>
    /\ UNCHANGED <<envVars, zoomVars, geotiff_files, gdal2tiles_calls, update_calls, overall,
                   map_js, js_writes>>

\* a failed gdal2tiles.py run tried a second time
RunGdal2tilesRetry ==
    /\ pc = "gdal2tiles"
    /\ gdal2tiles_calls' = [gdal2tiles_calls EXCEPT ![idx] = @ + 1]
    /\ \E returncode \in {0, 1} :
        IF returncode = 0
        THEN /\ StoreResult(Some(cur[1].bounds), Some(cur[1].min_zoom), Some(cur[1].max_zoom))
             /\ cur' = None
        ELSE IF gdal2tiles_calls[idx] = 0
        THEN UNCHANGED <<pc, idx, ortho_configs, cur>>
        ELSE StoreResult(None, None, None) /\ cur' = None
    /\ UNCHANGED <<envVars, zoomVars, geotiff_files, gdalinfo_calls, info_result, update_calls,
                   overall, map_js, js_writes, exit_path, exit_code>>

\* subprocess.run(cmd, check=True), the return of generate_tiles and main's store
RunGdal2tiles ==
    /\ pc = "gdal2tiles"
    /\ gdal2tiles_calls' = [gdal2tiles_calls EXCEPT ![idx] = @ + 1]
    /\ \E returncode \in {0, 1} :
        IF returncode = 0
        THEN StoreResult(Some(cur[1].bounds), Some(cur[1].min_zoom), Some(cur[1].max_zoom))
        ELSE StoreResult(None, None, None)
    /\ cur' = None
    /\ UNCHANGED <<envVars, zoomVars, geotiff_files, gdalinfo_calls, info_result, update_calls,
                   overall, map_js, js_writes, exit_path, exit_code>>

\* ----------------------------------------------------- update_map_config
RECURSIVE SeqMin(_), SeqMax(_), CeilLog2(_), FloorLog2(_)
\* Python's min() and max() over a non-empty list
SeqMin(s) == IF Len(s) = 1 THEN s[1] ELSE Min2(s[1], SeqMin(Tail(s)))
SeqMax(s) == IF Len(s) = 1 THEN s[1] ELSE Max2(s[1], SeqMax(Tail(s)))

\* least k with 2^k >= x, and greatest k with 2^k <= x, for x >= 1
CeilLog2(x) == IF x <= 1 THEN 0 ELSE 1 + CeilLog2((x + 1) \div 2)
FloorLog2(x) == IF x <= 1 THEN 0 ELSE 1 + FloorLog2(x \div 2)

MapSeq(s, F(_)) == [i \in 1..Len(s) |-> F(s[i])]

\* 'if config[...]' tests truthiness: a dict of four keys is true, None is false,
\* an int is true unless it is 0
BoundsTruthy(config) == config.bounds # None
MinZoomTruthy(config) == config.min_zoom # None /\ config.min_zoom[1] # 0
MaxZoomTruthy(config) == config.max_zoom # None /\ config.max_zoom[1] # 0

BoundsOf(config) == config.bounds[1]
West(b) == b.west
East(b) == b.east
South(b) == b.south
North(b) == b.north
MinZoomOf(config) == config.min_zoom[1]
MaxZoomOf(config) == config.max_zoom[1]

all_bounds_of(configs) == MapSeq(SelectSeq(configs, BoundsTruthy), BoundsOf)

\* the extent of the first layer taken for the extent of all
overall_bounds_first_layer(all_bounds) ==
    LET b == all_bounds[1]
    IN [west |-> b.west, east |-> b.east, south |-> b.south, north |-> b.north,
        center_lat2 |-> b.south + b.north, center_lng2 |-> b.west + b.east]

\* min_west .. center_lng; the centre is kept doubled
overall_bounds(all_bounds) ==
    LET min_west == SeqMin(MapSeq(all_bounds, West))
        max_east == SeqMax(MapSeq(all_bounds, East))
        min_south == SeqMin(MapSeq(all_bounds, South))
        max_north == SeqMax(MapSeq(all_bounds, North))
    IN [west |-> min_west, east |-> max_east, south |-> min_south, north |-> max_north,
        center_lat2 |-> min_south + max_north, center_lng2 |-> min_west + max_east]

\* max(1, int(10 - math.log2(max_range * 10))) for max_range * 10 >= 1
initial_zoom_of(o) ==
    LET max_range == Max2(o.north - o.south, o.east - o.west)
        x == max_range * 10
    IN Max2(1, IF x <= 1024 THEN 10 - CeilLog2(x) ELSE 10 - FloorLog2(x))

overall_zoom(configs) ==
    LET all_min_zooms == MapSeq(SelectSeq(configs, MinZoomTruthy), MinZoomOf)
        all_max_zooms == MapSeq(SelectSeq(configs, MaxZoomTruthy), MaxZoomOf)
    IN [min |-> IF all_min_zooms # <<>> THEN SeqMin(all_min_zooms) ELSE 5,
        max |-> IF all_max_zooms # <<>> THEN SeqMax(all_max_zooms) ELSE 18]

LayerOf(config) == [name |-> config.name, bounds |-> config.bounds]

\* update_map_config below its early return: dies in math.log2 or produces the text of map.js
synthesize(configs) ==
    LET o == overall_bounds(all_bounds_of(configs))
    IN IF Max2(o.north - o.south, o.east - o.west) * 10 <= 0
       THEN [outcome |-> "ValueError", overall |-> o]
       ELSE [outcome |-> "written", overall |-> o,
             js |-> [lat2 |-> o.center_lat2, lng2 |-> o.center_lng2,
                     zoom |-> initial_zoom_of(o),
                     zoomLevels |-> overall_zoom(configs),
                     orthoLayers |-> MapSeq(configs, LayerOf)]]

\* no early return: a configuration centred on (0, 0) is written when no layer has bounds
update_map_config_degenerate(configs) ==
    IF all_bounds_of(configs) = <<>>
    THEN [outcome |-> "written",
          overall |-> [west |-> 0, east |-> 0, south |-> 0, north |-> 0,
                       center_lat2 |-> 0, center_lng2 |-> 0],
          js |-> [lat2 |-> 0, lng2 |-> 0, zoom |-> 1, zoomLevels |-> overall_zoom(configs),
                  orthoLayers |-> MapSeq(configs, LayerOf)]]
    ELSE synthesize(configs)

\* what one call does: returns early when no layer has bounds
update_map_config(configs) ==
    IF all_bounds_of(configs) = <<>>
    THEN [outcome |-> "no_bounds"]
    ELSE synthesize(configs)

\* main from "Updating map configuration..." to its end
UpdateMapConfig ==
    /\ pc = "update"
    /\ update_calls' = update_calls + 1
    /\ LET r == update_map_config(ortho_configs)
       IN CASE r.outcome = "no_bounds" ->
                 /\ pc' = "exited" /\ exit_path' = "normal" /\ exit_code' = 0
                 /\ UNCHANGED <<overall, map_js, js_writes>>
            [] r.outcome = "ValueError" ->
                 /\ Uncaught
                 /\ overall' = Some(r.overall)
                 /\ UNCHANGED <<map_js, js_writes>>
            [] r.outcome = "written" ->
                 /\ pc' = "exited" /\ exit_path' = "normal" /\ exit_code' = 0
                 /\ overall' = Some(r.overall)
                 /\ map_js' = Some(r.js)
                 /\ js_writes' = js_writes + 1
    /\ UNCHANGED <<envVars, zoomVars, geotiff_files, idx, cur, ortho_configs, gdalinfo_calls,
                   gdal2tiles_calls, info_result>>

Next ==
    \/ CheckGdal
    \/ FindGeotiffFiles
    \/ GenerateTilesInfo
    \/ RunGdal2tiles
    \/ UpdateMapConfig

Spec == Init /\ [][Next]_vars

\* ------------------------------- calculate_zoom_levels on its own inputs
InitZoom ==
    /\ gdalinfo_tool = "ok"
    /\ gdal2tiles_tool = "ok"
    /\ orthos_dir = {}
    /\ pc = "calculate_zoom_levels"
    /\ geotiff_files = <<>>
    /\ idx = 0
    /\ cur = None
    /\ ortho_configs = <<>>
    /\ gdalinfo_calls = <<>>
    /\ gdal2tiles_calls = <<>>
    /\ info_result = <<>>
    /\ update_calls = 0
    /\ overall = None
    /\ map_js = None
    /\ js_writes = 0
    /\ exit_path = "running"
    /\ exit_code = -1
    /\ z_in \in {Some(p) : p \in PixelSizes}
    /\ z_out = None

CalculateZoomLevels ==
    /\ pc = "calculate_zoom_levels"
    /\ z_out = None
    /\ \E image_width \in ImageWidths :
        z_out' = Some(calculate_zoom_levels(z_in[1], image_width))
    /\ UNCHANGED <<envVars, pc, geotiff_files, idx, cur, ortho_configs, gdalinfo_calls,
                   gdal2tiles_calls, info_result, update_calls, overall, map_js, js_writes,
                   exit_path, exit_code, z_in>>

NextZoom == CalculateZoomLevels

SpecZoom == InitZoom /\ [][NextZoom]_vars

\* ================================================================ claims
Files == 1..Len(geotiff_files)
Entries == 1..Len(ortho_configs)
InfoFailures == {"nonzero", "badjson", "missingkey"}

EntryAbsent(e) == e.bounds = None /\ e.min_zoom = None /\ e.max_zoom = None
EntryPresent(e) == e.bounds # None /\ e.min_zoom # None /\ e.max_zoom # None

\* log2(156543.03392804097 / |p|) > k and >= k, for the pixel size p
OptimalZoomGreater(p, k) == p.expo > k \/ (p.expo = k /\ p.mant > 4)
OptimalZoomAtLeast(p, k) == p.expo >= k

\* C1: for every positive pixel size calculate_zoom_levels returns a pair with
\* min_zoom <= max_zoom and both values within 1..22.
C1_ZoomPairWithinOneTo22 ==
    (z_out # None /\ z_in[1].sign = 1) =>
        /\ z_out[1][1] <= z_out[1][2]
        /\ z_out[1][1] \in 1..22
        /\ z_out[1][2] \in 1..22

\* C2 as stated: whenever the optimal zoom is greater than 26, calculate_zoom_levels
\* returns exactly the fallback pair (10, 22).
C2_FallbackAboveOptimal26 ==
    (z_out # None /\ OptimalZoomGreater(z_in[1], 26)) => z_out[1] = <<10, 22>>

\* C2 as amended: whenever the optimal zoom is at least 27, so that its truncation
\* is greater than 26, calculate_zoom_levels returns exactly the fallback pair (10, 22).
C2_FallbackFromOptimal27 ==
    (z_out # None /\ OptimalZoomAtLeast(z_in[1], 27)) => z_out[1] = <<10, 22>>

C2_Witness ==
    /\ z_out = Some(<<10, 22>>)
    /\ z_in[1].sign = 1
    /\ z_in[1].expo = 27
    /\ z_in[1].mant = 4

\* C3: a file whose metadata extraction fails (non-zero exit, invalid JSON, or JSON
\* lacking the expected keys) does not crash the run, ends as an entry with bounds,
\* min_zoom and max_zoom all absent, and leaves the overall bounds and the overall
\* zoom range those of the other layers alone.
C3_OthersOf(i) ==
    SelectSeq(ortho_configs, LAMBDA e : e.name # Stem(geotiff_files[i]))

C3_FailedExtractionIsAbsentLayer ==
    \A i \in Files :
        info_result[i] \in InfoFailures =>
            /\ ~(exit_path = "uncaught" /\ idx = i /\ update_calls = 0)
            /\ (pc = "exited" /\ exit_path = "normal") =>
                /\ \E k \in Entries :
                    /\ ortho_configs[k].name = Stem(geotiff_files[i])
                    /\ EntryAbsent(ortho_configs[k])
                /\ map_js # None =>
                    /\ overall[1] = overall_bounds(all_bounds_of(C3_OthersOf(i)))
                    /\ map_js[1].zoomLevels = overall_zoom(C3_OthersOf(i))

\* C4: a single layer's failure never stops the batch: once the run has ended after
\* a non-empty discovery, every discovered file has had its metadata extraction
\* attempted and update_map_config has been invoked exactly once.
C4_BatchRunsToTheEnd ==
    (pc = "exited" /\ geotiff_files # <<>>) =>
        /\ \A i \in Files : gdalinfo_calls[i] >= 1
        /\ update_calls = 1

\* C5: if a required tool is unavailable (not installed, or its probe exits non-zero)
\* or the input directory has no matching file, no extraction, tiling or write of
\* map.js ever happens, and the process ends with a non-zero exit code through the
\* reported configuration-error path.
C5_PreflightFailsFast ==
    (gdalinfo_tool # "ok" \/ gdal2tiles_tool # "ok" \/ orthos_dir = {}) =>
        /\ \A i \in Files : gdalinfo_calls[i] = 0 /\ gdal2tiles_calls[i] = 0
        /\ update_calls = 0
        /\ js_writes = 0
        /\ pc = "exited" => (exit_path = "config_error" /\ exit_code # 0)

\* C6: after the batch loop the result collection holds exactly one entry per
\* discovered file, also when two files share a stem.
C6_OneResultPerFile ==
    (pc = "update" \/ update_calls = 1) => Len(ortho_configs) = Len(geotiff_files)

\* C7: if no layer has present bounds after the loop, update_map_config writes nothing
\* to web/js/map.js and the run completes normally with exit code 0.
C7_NoLayerHasBounds == \A k \in Entries : ortho_configs[k].bounds = None

C7_NoBoundsNoArtifact ==
    /\ (pc = "update" /\ C7_NoLayerHasBounds) => (map_js = None /\ js_writes = 0)
    /\ (update_calls = 1 /\ C7_NoLayerHasBounds) =>
        /\ map_js = None
        /\ js_writes = 0
        /\ pc = "exited"
        /\ exit_path = "normal"
        /\ exit_code = 0

C7_Witness ==
    /\ update_calls = 1
    /\ Len(ortho_configs) >= 2
    /\ C7_NoLayerHasBounds
    /\ \E i \in Files : gdal2tiles_calls[i] = 1
    /\ \E i \in Files : info_result[i] \in InfoFailures
    /\ exit_code = 0
    /\ map_js = None

\* C8: in every written map.js the zoom range is (least min_zoom, greatest max_zoom)
\* over the layers whose zoom range is present, or (5, 18) when there is none, and
\* its min is <= its max; 0 and negative zoom values count as present.
C8_PresentMins == {ortho_configs[k].min_zoom[1] : k \in {j \in Entries : ortho_configs[j].min_zoom # None}}
C8_PresentMaxs == {ortho_configs[k].max_zoom[1] : k \in {j \in Entries : ortho_configs[j].max_zoom # None}}

C8_GlobalZoomSpansLayers ==
    map_js # None =>
        LET zl == map_js[1].zoomLevels
        IN /\ zl.min <= zl.max
           /\ IF C8_PresentMins = {}
              THEN zl.min = 5
              ELSE zl.min \in C8_PresentMins /\ \A m \in C8_PresentMins : zl.min <= m
           /\ IF C8_PresentMaxs = {}
              THEN zl.max = 18
              ELSE zl.max \in C8_PresentMaxs /\ \A m \in C8_PresentMaxs : zl.max >= m

\* C9: once update_map_config has computed them, overall west and south are the least
\* west and south, overall east and north the greatest east and north, over exactly
\* the layers with present bounds, and the centre is the midpoint; the three layers
\* of the example give west=-2, south=-1, east=3, north=3, lat=1.0, lng=0.5.
C9_PresentBounds == {ortho_configs[k].bounds[1] : k \in {j \in Entries : ortho_configs[j].bounds # None}}
C9_Example == {Bounds(-1, 0, 1, 2), Bounds(2, 1, 3, 3), Bounds(-2, -1, 0, 1)}

C9_OverallBoundsAreMinMax ==
    /\ (update_calls = 1 /\ C9_PresentBounds # {}) => overall # None
    /\ overall # None =>
        LET o == overall[1]
            B == C9_PresentBounds
        IN /\ B # {}
           /\ \E b \in B : b.west = o.west
           /\ \E b \in B : b.south = o.south
           /\ \E b \in B : b.east = o.east
           /\ \E b \in B : b.north = o.north
           /\ \A b \in B : o.west <= b.west /\ o.south <= b.south
                           /\ o.east >= b.east /\ o.north >= b.north
           /\ o.center_lat2 = o.south + o.north
           /\ o.center_lng2 = o.west + o.east
           /\ map_js # None => (map_js[1].lat2 = o.center_lat2 /\ map_js[1].lng2 = o.center_lng2)
           /\ B = C9_Example =>
                (o.west = -2 /\ o.south = -1 /\ o.east = 3 /\ o.north = 3
                 /\ o.center_lat2 = 2 /\ o.center_lng2 = 1)

C9_Witness ==
    /\ overall # None
    /\ map_js # None
    /\ Len(ortho_configs) = 3
    /\ C9_PresentBounds = C9_Example
    /\ overall[1].west = -2 /\ overall[1].south = -1
    /\ overall[1].east = 3 /\ overall[1].north = 3
    /\ map_js[1].lat2 = 2 /\ map_js[1].lng2 = 1

\* C10: per file the metadata tool runs at most once and the tile generator at most
\* once, the tile generator only after that file's extraction succeeded, and the
\* recorded bounds and zoom range of a layer are all present or all absent.
C10_StagesInOrderNoRetry ==
    /\ \A i \in Files :
        /\ gdalinfo_calls[i] <= 1
        /\ gdal2tiles_calls[i] <= 1
        /\ gdal2tiles_calls[i] >= 1 => (gdalinfo_calls[i] = 1 /\ info_result[i] = "ok")
        /\ (pc = "gdal2tiles" /\ idx = i) => info_result[i] = "ok"
        /\ info_result[i] \in InfoFailures => gdal2tiles_calls[i] = 0
    /\ \A k \in Entries :
        LET e == ortho_configs[k]
        IN /\ EntryAbsent(e) \/ EntryPresent(e)
           /\ EntryPresent(e) =>
                \E i \in Files : /\ FileName(geotiff_files[i]) = e.source_file
                                 /\ info_result[i] = "ok"
                                 /\ gdal2tiles_calls[i] = 1

C10_Witness ==
    /\ pc = "exited"
    /\ exit_path = "normal"
    /\ \E i, j, l \in Files :
        /\ info_result[i] \in InfoFailures /\ gdal2tiles_calls[i] = 0
        /\ info_result[j] = "ok" /\ gdal2tiles_calls[j] = 1
        /\ info_result[l] = "ok" /\ gdal2tiles_calls[l] = 1
        /\ \E k \in Entries : /\ ortho_configs[k].source_file = FileName(geotiff_files[j])
                              /\ EntryPresent(ortho_configs[k])
        /\ \E k \in Entries : /\ ortho_configs[k].source_file = FileName(geotiff_files[l])
                              /\ EntryAbsent(ortho_configs[k])

====
